---- MODULE Spec2Model ----
(***************************************************************************)
(* yamig: Postgres migration management (src/src/index.ts, the current     *)
(* definitions at lines 386-772).  The model covers the reconciliation of  *)
(* the local migration files against the rows of table "migration" and the *)
(* per-migration transactional executor, for the commands up, down, revert *)
(* and status.                                                             *)
(*                                                                         *)
(* A migration id stands for the 13-digit millisecond timestamp of the     *)
(* file name; the ids 1..MaxId keep its order and its decimal rendering.   *)
(* A script body is opaque: the effect of the forward script of (id, name) *)
(* on the target schema is recorded in `schema` as the key (id, name), and *)
(* the backward script of (id, name) removes it.                           *)
(***************************************************************************)
EXTENDS Integers, Sequences, FiniteSets, TLC

\* Bounds of the model.
MaxId == 2
MaxFiles == 4

Ids == 1..MaxId
Names == {"a", "b"}

\* type Migration = { id, name, sql, up }: sql is the opaque body of the file.
Migration == [id : Ids, name : Names, up : BOOLEAN]

\* type MigrationRecord = { id, name, applied }: applied is NOT NULL DEFAULT NOW().
MigrationRecord == [id : Ids, name : Names]

VARIABLES
    dir,         \* what the path "migrations" is: "absent", "dir" or "file"
    files,       \* the script files of the directory, as parsed (id, name, up)
    tableExists, \* table "migration" exists in the database
    table,       \* committed rows of table "migration"
    schema,      \* committed effects of the scripts on the target schema
    cmd,         \* the command in progress, "idle" between commands
    pc,          \* position inside the command
    local,       \* localMigrations
    records,     \* records / head as fetched
    toRun,       \* the work list handed to migrate
    i,           \* index into toRun of the item of the for loop
    txOpen,      \* a transaction is open on the client
    txScript,    \* the open transaction holds the script's effect
    txBook,      \* the open transaction holds the bookkeeping write
    failedAt,    \* index of the item whose failure was caught, 0 if none
    log,         \* history of the run: <<event, index>>
    table0,      \* rows of the table when the command started
    existed0,    \* <<dir, tableExists, files>> when the command started
    out,         \* lines written by status: [id, name, applied]
    exit,        \* outcome of the command: "none", "ok", "error"
    rt,          \* "free", or the phase of a session of two commands
    orig,        \* rows of the table when the session started
    dbname,      \* options.dbname is set
    conn,        \* the command has opened a pool and queried the database
    err,         \* what ended the command early: "none", "load", "config", "sink"
    pcB,         \* position of a second, concurrent up invocation
    toRunB,      \* its work list
    iB,          \* its index into toRunB
    txScriptB,   \* its open transaction holds the script's effect
    txBookB,     \* its open transaction holds the INSERT
    doneB,       \* the indices of the items it has committed
    failedB      \* index of the item whose failure it caught, 0 if none

vars == <<dir, files, tableExists, table, schema, cmd, pc, local, records,
          toRun, i, txOpen, txScript, txBook, failedAt, log, table0,
          existed0, out, exit, rt, orig, dbname, conn, err, pcB, toRunB, iB,
          txScriptB, txBookB, doneB, failedB>>

store == <<dir, files, tableExists, table, schema>>
run == <<local, records, toRun, i, failedAt, log, out>>
tx == <<txOpen, txScript, txBook>>
other == <<pcB, toRunB, iB, txScriptB, txBookB, doneB, failedB>>
session == <<rt, orig, other>>
diag == <<dbname, conn, err>>

----------------------------------------------------------------------------
\* Helpers

Range(s) == {s[k] : k \in 1..Len(s)}

RECURSIVE Perms(_)
\* every order in which a set can be listed (readdir, SELECT without ORDER BY)
Perms(S) ==
    IF S = {} THEN {<<>>}
    ELSE UNION {{<<x>> \o p : p \in Perms(S \ {x})} : x \in S}

RECURSIVE SelectSeq2(_, _)
SelectSeq2(s, keep) ==
    IF s = <<>> THEN <<>>
    ELSE IF s[1] \in keep THEN <<s[1]>> \o SelectSeq2(Tail(s), keep)
    ELSE SelectSeq2(Tail(s), keep)

\* `${id}-${name}`
KeyOf(id, name) == ToString(id) \o "-" \o name

\* the row identity the claims speak of
Row(m) == [id |-> m.id, name |-> m.name]

\* rows of a table with unique ids (PRIMARY KEY (id))
UniqueIds(T) == \A r1, r2 \in T : r1.id = r2.id => r1 = r2

----------------------------------------------------------------------------
\* Pure functions of the source

\* records.map((r) => `${r.id}-${r.name}`) collected in a Set
recordSet(recs) == {KeyOf(r.id, r.name) : r \in recs}

\* the comparator handed to sort: up ? a.id - b.id : b.id - a.id
compareSwapped(a, b, up) == IF up THEN b.id - a.id ELSE a.id - b.id
compare(a, b, up) == IF up THEN a.id - b.id ELSE b.id - a.id

\* Array.prototype.sort is stable: x goes behind every element that does not
\* compare greater than it
InsertSorted(t, x, up) ==
    LET k == Cardinality({j \in 1..Len(t) : compare(t[j], x, up) <= 0})
    IN  SubSeq(t, 1, k) \o <<x>> \o SubSeq(t, k + 1, Len(t))

RECURSIVE sort(_, _)
sort(s, up) ==
    IF s = <<>> THEN <<>>
    ELSE InsertSorted(sort(SubSeq(s, 1, Len(s) - 1), up), s[Len(s)], up)

\* localMigrations.filter((m) => recordSet.has(`${m.id}-${m.name}`) !== up)
filterToRunById(locals, recs, up) ==
    SelectSeq2(locals,
        {m \in Range(locals) : (m.id \in {r.id : r \in recs}) # up})
filterToRunAbsent(locals, recs, up) ==
    SelectSeq2(locals,
        {m \in Range(locals) : KeyOf(m.id, m.name) \notin recordSet(recs)})
filterToRun(locals, recs, up) ==
    SelectSeq2(locals,
        {m \in Range(locals) : (KeyOf(m.id, m.name) \in recordSet(recs)) # up})

\* toRun of migrateAll
toRunOf(locals, recs, up) == sort(filterToRun(locals, recs, up), up)

\* SELECT * FROM migration ORDER BY id DESC LIMIT 1
headOfAscending(T) == CHOOSE r \in T : \A q \in T : q.id >= r.id
headOf(T) == CHOOSE r \in T : \A q \in T : q.id <= r.id

RECURSIVE Dedup(_, _)
\* new Set([...]) keeps the first occurrence of each value, in order
Dedup(s, seen) ==
    IF s = <<>> THEN <<>>
    ELSE IF s[1] \in seen THEN Dedup(Tail(s), seen)
    ELSE <<s[1]>> \o Dedup(Tail(s), seen \cup {s[1]})

\* array.find: the first element with the id, or none
FindById(s, id) ==
    LET hits == {k \in 1..Len(s) : s[k].id = id}
    IN  IF hits = {} THEN <<>>
        ELSE <<s[CHOOSE k \in hits : \A j \in hits : k <= j]>>

\* ids of cmdStatus: record ids first, then local ids
statusIds(recs, locals) ==
    Dedup([k \in 1..Len(recs) |-> recs[k].id] \o
          [k \in 1..Len(locals) |-> locals[k].id], {})

\* one line of cmdStatus
statusRowLocalName(recs, locals, id) ==
    LET localMigration == FindById(locals, id)
        record == FindById(recs, id)
    IN  [id |-> id,
         name |-> IF localMigration # <<>> THEN localMigration[1].name
                  ELSE record[1].name,
         applied |-> record # <<>>]
statusRowAppliedIfLocal(recs, locals, id) ==
    LET localMigration == FindById(locals, id)
        record == FindById(recs, id)
    IN  [id |-> id,
         name |-> IF record # <<>> THEN record[1].name
                  ELSE localMigration[1].name,
         applied |-> localMigration # <<>>]
statusRow(recs, locals, id) ==
    LET localMigration == FindById(locals, id)
        record == FindById(recs, id)
    IN  [id |-> id,
         name |-> IF record # <<>> THEN record[1].name
                  ELSE localMigration[1].name,
         applied |-> record # <<>>]

statusRows(recs, locals) ==
    LET ids == statusIds(recs, locals)
    IN  [k \in 1..Len(ids) |-> statusRow(recs, locals, ids[k])]

----------------------------------------------------------------------------
\* Initial states: any directory of at most MaxFiles script files, any table
\* that satisfies its primary key, and a schema that agrees with the table.

AllFiles == Migration

FileSets == {F \in SUBSET AllFiles : Cardinality(F) <= MaxFiles}

Tables == {T \in SUBSET MigrationRecord : UniqueIds(T)}

InitStore ==
    /\ dir \in {"absent", "file", "dir"}
    /\ files \in IF dir = "dir" THEN FileSets ELSE {{}}
    /\ tableExists \in BOOLEAN
    /\ table \in IF tableExists THEN Tables ELSE {{}}
    /\ schema = table

InitRun ==
    /\ cmd = "idle"
    /\ pc = "idle"
    /\ local = <<>>
    /\ records = <<>>
    /\ toRun = <<>>
    /\ i = 0
    /\ txOpen = FALSE
    /\ txScript = FALSE
    /\ txBook = FALSE
    /\ failedAt = 0
    /\ log = <<>>
    /\ table0 = table
    /\ existed0 = <<dir, tableExists, files>>
    /\ out = <<>>
    /\ exit = "none"
    /\ dbname = TRUE
    /\ conn = FALSE
    /\ err = "none"
    /\ pcB = "idle"
    /\ toRunB = <<>>
    /\ iB = 0
    /\ txScriptB = FALSE
    /\ txBookB = FALSE
    /\ doneB = {}
    /\ failedB = 0

Init == InitStore /\ InitRun /\ rt = "free" /\ orig = {}

----------------------------------------------------------------------------
\* The commands

\* the command a session runs in a phase: up then down, or up then up
phaseCommand(r) == IF r \in {"up1", "up2"} THEN "up" ELSE r

\* the phase that follows a command that ended cleanly or not
nextPhase(r, clean) ==
    CASE r = "free" -> "free"
      [] r = "up" /\ clean -> "down"
      [] r = "up1" /\ clean -> "up2"
      [] OTHER -> "end"

\* program.command(c).action(...): the command line names one command
Start(c) ==
    /\ cmd = "idle"
    /\ rt = "free" \/ phaseCommand(rt) = c
    /\ cmd' = c
    /\ pc' = CASE c \in {"up", "down"} -> "load"
               [] c = "revert" -> "head"
               [] c = "status" -> "fetch"
    /\ table0' = table
    /\ existed0' = <<dir, tableExists, files>>
    /\ \E d \in BOOLEAN : dbname' = d
    /\ UNCHANGED <<store, run, tx, exit, session, conn, err>>

\* ensureMigrationDirectory: mkdir when stat fails, throw when not a directory
ensureMigrationDirectoryForced == "dir"
ensureMigrationDirectory == IF dir = "absent" THEN "dir" ELSE dir

\* a throw that reaches main().catch: process.exit(-1)
Throw ==
    /\ pc' = "done"
    /\ exit' = "error"

\* a throw of the load of the local migrations: the directory check of
\* ensureMigrationDirectory or the readFile of readLocalMigration
ThrowLoad == Throw /\ err' = "load"

\* assertDatabaseNameOption: process.exit(-1) when options.dbname is not set
assertDatabaseNameOption ==
    /\ ~dbname
    /\ pc' = "done"
    /\ exit' = "error"
    /\ err' = "config"

\* migrateAll, line 640, with fetchMigrationRecords ahead of it
FindLocalAfterFetch ==
    /\ cmd \in {"up", "down"}
    /\ pc = "load"
    /\ dir' = ensureMigrationDirectory
    /\ conn' = dbname
    /\ tableExists' = (tableExists \/ dbname)
    /\ IF dir' # "dir"
       THEN ThrowLoad /\ UNCHANGED local
       ELSE \/ /\ \E listing \in Perms({f \in files : f.up = (cmd = "up")}) :
                     local' = listing
               /\ pc' = "fetch"
               /\ UNCHANGED <<exit, err>>
            \/ /\ \E f \in files : f.up = (cmd = "up")
               /\ ThrowLoad
               /\ UNCHANGED local
    /\ UNCHANGED <<files, table, schema, cmd, records, toRun, i,
                   failedAt, log, out, tx, table0, existed0, session, dbname>>

\* migrateAll, line 640: findLocalMigrations(up)
FindLocal ==
    /\ cmd \in {"up", "down"}
    /\ pc = "load"
    /\ dir' = ensureMigrationDirectory
    /\ IF dir' # "dir"
       THEN ThrowLoad /\ UNCHANGED local
       ELSE \/ /\ \E listing \in Perms({f \in files : f.up = (cmd = "up")}) :
                     local' = listing
               /\ pc' = "fetch"
               /\ UNCHANGED <<exit, err>>
            \/ /\ \E f \in files : f.up = (cmd = "up")
               /\ ThrowLoad
               /\ UNCHANGED local
    /\ UNCHANGED <<files, tableExists, table, schema, cmd, records, toRun, i,
                   failedAt, log, out, tx, table0, existed0, session, dbname,
                   conn>>

\* migrateAll, lines 642-669: assertDatabaseNameOption, fetchMigrationRecords,
\* the work list (localMigrations is last read by the summary that is logged
\* here) and the early return on an empty list
ReconcileUnasserted ==
    /\ cmd \in {"up", "down"}
    /\ pc = "fetch"
    /\ conn' = TRUE
    /\ tableExists' = TRUE
    /\ toRun' = toRunOf(local, table, cmd = "up")
    /\ IF toRun' = <<>>
       THEN pc' = "done" /\ exit' = "ok" /\ i' = 0
       ELSE pc' = "begin" /\ exit' = exit /\ i' = 1
    /\ local' = <<>>
    /\ UNCHANGED <<dir, files, table, schema, cmd, records, failedAt,
                   log, out, tx, table0, existed0, session, dbname, err>>
Reconcile ==
    /\ cmd \in {"up", "down"}
    /\ pc = "fetch"
    /\ \/ assertDatabaseNameOption /\ UNCHANGED <<tableExists, toRun, i, conn>>
       \/ /\ dbname
          /\ conn' = TRUE
          /\ tableExists' = TRUE
          /\ toRun' = toRunOf(local, table, cmd = "up")
          /\ IF toRun' = <<>>
             THEN pc' = "done" /\ exit' = "ok" /\ i' = 0
             ELSE pc' = "begin" /\ exit' = exit /\ i' = 1
          /\ UNCHANGED err
    /\ local' = <<>>
    /\ UNCHANGED <<dir, files, table, schema, cmd, records, failedAt,
                   log, out, tx, table0, existed0, session, dbname>>

----------------------------------------------------------------------------
\* migrate(migrations, client): one transaction per item, lines 594-636

\* what the database holds of the script's effect once the transaction of
\* item m ends with outcome "commit" or "rollback"
schemaAfterAutocommit(S, m, done, outcome) ==
    IF done
    THEN IF m.up THEN S \cup {Row(m)} ELSE S \ {Row(m)}
    ELSE S
schemaAfter(S, m, done, outcome) ==
    IF outcome = "commit" /\ done
    THEN IF m.up THEN S \cup {Row(m)} ELSE S \ {Row(m)}
    ELSE S

\* INSERT INTO migration (id, name, applied) VALUES (id, 'name', default) or
\* DELETE FROM migration WHERE id = id, once the transaction ends
tableAfterDeleteByName(T, m, done, outcome) ==
    IF outcome = "commit" /\ done
    THEN IF m.up THEN T \cup {Row(m)} ELSE {r \in T : r.name # m.name}
    ELSE T
tableAfter(T, m, done, outcome) ==
    IF outcome = "commit" /\ done
    THEN IF m.up THEN T \cup {Row(m)} ELSE {r \in T : r.id # m.id}
    ELSE T

\* CONSTRAINT migration_pk PRIMARY KEY on id rejects a second row with the id
insertRejectedByKey(T, m) == Row(m) \in T
insertRejectedNever(T, m) == FALSE
insertRejected(T, m) == \E r \in T : r.id = m.id

\* the catch block ends with break: the loop is left
afterCatchContinue(k, n) ==
    IF k < n THEN [pc |-> "begin", i |-> k + 1] ELSE [pc |-> "done", i |-> k]
afterCatch(k, n) == [pc |-> "done", i |-> k]

\* the end of one iteration of the for loop
afterCommit(k, n) ==
    IF k < n THEN [pc |-> "begin", i |-> k + 1] ELSE [pc |-> "done", i |-> k]

\* client.query("BEGIN")
Begin ==
    /\ pc = "begin"
    /\ log' = Append(log, <<"attempt", i>>)
    /\ \E ok \in BOOLEAN :
          /\ txOpen' = ok
          /\ pc' = IF ok THEN "script" ELSE "rollback"
    /\ UNCHANGED <<store, cmd, local, records, toRun, i, txScript, txBook,
                   failedAt, out, table0, existed0, exit, session, diag>>

\* client.query(migration.sql)
Script ==
    /\ pc = "script"
    /\ \E ok \in BOOLEAN :
          /\ txScript' = ok
          /\ pc' = IF ok THEN "book" ELSE "rollback"
    /\ UNCHANGED <<store, cmd, run, txOpen, txBook, table0, existed0, exit,
                   session, diag>>

\* an INSERT waits while an uncommitted INSERT of another connection holds
\* the same primary key
insertWaits(m, held, n) == m.up /\ held /\ n.id = m.id

\* the INSERT or the DELETE of the bookkeeping row
Book ==
    /\ pc = "book"
    /\ ~(txBookB /\ insertWaits(toRun[i], txBookB, toRunB[iB]))
    /\ \E ok \in BOOLEAN :
          /\ ok => ~(toRun[i].up /\ insertRejected(table, toRun[i]))
          /\ txBook' = ok
          /\ pc' = IF ok THEN "commit" ELSE "rollback"
    /\ UNCHANGED <<store, cmd, run, txOpen, txScript, table0, existed0, exit,
                   session, diag>>

\* client.query("COMMIT")
Commit ==
    /\ pc = "commit"
    /\ \/ /\ schema' = schemaAfter(schema, toRun[i], txScript, "commit")
          /\ table' = tableAfter(table, toRun[i], txBook, "commit")
          /\ txOpen' = FALSE /\ txScript' = FALSE /\ txBook' = FALSE
          /\ log' = Append(log, <<"commit", i>>)
          /\ pc' = afterCommit(i, Len(toRun)).pc
          /\ i' = afterCommit(i, Len(toRun)).i
          /\ exit' = IF pc' = "done" THEN "ok" ELSE exit
       \/ /\ pc' = "rollback"
          /\ UNCHANGED <<schema, table, tx, log, i, exit>>
    /\ UNCHANGED <<dir, files, tableExists, cmd, local, records, toRun,
                   failedAt, out, table0, existed0, session, diag>>

\* the catch block: client.query("ROLLBACK"), then break; a ROLLBACK that
\* throws leaves migrate, and the server drops the transaction with the
\* connection
Rollback ==
    /\ pc = "rollback"
    /\ schema' = schemaAfter(schema, toRun[i], txScript, "rollback")
    /\ table' = tableAfter(table, toRun[i], txBook, "rollback")
    /\ txOpen' = FALSE /\ txScript' = FALSE /\ txBook' = FALSE
    /\ log' = Append(log, <<"rollback", i>>)
    /\ failedAt' = i
    /\ \/ /\ pc' = afterCatch(i, Len(toRun)).pc
          /\ i' = afterCatch(i, Len(toRun)).i
          /\ exit' = IF pc' = "done" THEN "ok" ELSE exit
       \/ Throw /\ UNCHANGED i
    /\ UNCHANGED <<dir, files, tableExists, cmd, local, records, toRun, out,
                   table0, existed0, session, diag>>

----------------------------------------------------------------------------
\* cmdRevert, lines 691-697: fetchMigrationHeadRecord and the early return
FetchHeadOne ==
    /\ cmd = "revert"
    /\ pc = "head"
    /\ \/ assertDatabaseNameOption /\ UNCHANGED <<tableExists, records, conn>>
       \/ /\ dbname
          /\ conn' = TRUE
          /\ tableExists' = TRUE
          /\ IF table = {}
             THEN Throw /\ records' = <<>>
             ELSE pc' = "read" /\ exit' = exit /\ records' = <<headOf(table)>>
          /\ UNCHANGED err
    /\ UNCHANGED <<dir, files, table, schema, cmd, local, toRun, i, failedAt,
                   log, out, tx, table0, existed0, session, dbname>>
FetchHead ==
    /\ cmd = "revert"
    /\ pc = "head"
    /\ \/ assertDatabaseNameOption /\ UNCHANGED <<tableExists, records, conn>>
       \/ /\ dbname
          /\ conn' = TRUE
          /\ tableExists' = TRUE
          /\ IF table = {}
             THEN pc' = "done" /\ exit' = "ok" /\ records' = <<>>
             ELSE pc' = "read" /\ exit' = exit /\ records' = <<headOf(table)>>
          /\ UNCHANGED err
    /\ UNCHANGED <<dir, files, table, schema, cmd, local, toRun, i, failedAt,
                   log, out, tx, table0, existed0, session, dbname>>

\* cmdRevert, line 699: readLocalMigration(head.id, head.name, false); readFile
\* throws when the file is absent
ReadHeadMigration ==
    /\ cmd = "revert"
    /\ pc = "read"
    /\ LET m == [id |-> records[1].id, name |-> records[1].name, up |-> FALSE]
       IN  \/ /\ m \in files
              /\ toRun' = <<m>> /\ i' = 1 /\ pc' = "begin"
              /\ UNCHANGED <<exit, err>>
           \/ ThrowLoad /\ UNCHANGED <<toRun, i>>
    /\ UNCHANGED <<store, cmd, local, records, failedAt, log, out, tx, table0,
                   existed0, session, dbname, conn>>

\* cmdStatus, lines 722-724: fetchMigrationRecords
StatusFetch ==
    /\ cmd = "status"
    /\ pc = "fetch"
    /\ \/ assertDatabaseNameOption /\ UNCHANGED <<tableExists, records, conn>>
       \/ /\ dbname
          /\ conn' = TRUE
          /\ tableExists' = TRUE
          /\ \E rows \in Perms(table) : records' = rows
          /\ pc' = "load"
          /\ UNCHANGED <<exit, err>>
    /\ UNCHANGED <<dir, files, table, schema, cmd, local, toRun, i, failedAt,
                   log, out, tx, table0, existed0, session, dbname>>

\* cmdStatus, lines 726-743: findLocalMigrations(true) and the lines written
StatusPrint ==
    /\ cmd = "status"
    /\ pc = "load"
    /\ dir' = ensureMigrationDirectory
    /\ IF dir' # "dir"
       THEN ThrowLoad /\ UNCHANGED <<local, out>>
       ELSE \/ /\ \E listing \in Perms({f \in files : f.up}) :
                     /\ local' = listing
                     /\ out' = statusRows(records, listing)
               /\ pc' = "done"
               /\ exit' = "ok"
               /\ UNCHANGED err
            \/ /\ \E f \in files : f.up
               /\ ThrowLoad
               /\ UNCHANGED <<local, out>>
    /\ UNCHANGED <<files, tableExists, table, schema, cmd, records, toRun, i,
                   failedAt, log, tx, table0, existed0, session, dbname, conn>>

\* process.exit: the command is over, the next one starts from the stores
Exit ==
    /\ pc = "done"
    /\ cmd' = "idle"
    /\ pc' = "idle"
    /\ local' = <<>> /\ records' = <<>> /\ toRun' = <<>> /\ i' = 0
    /\ failedAt' = 0 /\ log' = <<>> /\ out' = <<>> /\ exit' = "none"
    /\ table0' = table
    /\ existed0' = <<dir, tableExists, files>>
    /\ rt' = nextPhase(rt, exit = "ok" /\ failedAt = 0)
    /\ dbname' = TRUE /\ conn' = FALSE /\ err' = "none"
    /\ UNCHANGED <<store, tx, orig, other>>

\* logger.info("applying migration") throws inside the try block: the catch
\* block runs although no statement of the item was sent
LogApplyingFails ==
    /\ pc = "begin"
    /\ pc' = "rollback"
    /\ err' = "sink"
    /\ UNCHANGED <<store, cmd, run, tx, table0, existed0, exit, session,
                   dbname, conn>>

\* logger.error("failed to migrate") throws inside the catch block: ROLLBACK
\* is not sent, the throw leaves migrate and the server drops the transaction
\* with the connection
LogFailedFails ==
    /\ pc = "rollback"
    /\ txOpen' = FALSE /\ txScript' = FALSE /\ txBook' = FALSE
    /\ failedAt' = i
    /\ err' = "sink"
    /\ Throw
    /\ UNCHANGED <<store, cmd, local, records, toRun, i, log, out, table0,
                   existed0, session, dbname, conn>>

\* the variables of the invocation modelled step by step above
invocation == <<cmd, pc, run, tx, table0, existed0, exit, rt, orig, diag>>

\* a second up invocation, migrateAll lines 640-669: the listing of the
\* directory reads nothing the first invocation writes, so it is taken
\* together with the fetch of the records
OtherReconcile ==
    /\ pcB = "idle"
    /\ dir' = ensureMigrationDirectory
    /\ IF dir' # "dir"
       THEN pcB' = "done" /\ UNCHANGED <<tableExists, toRunB, iB>>
       ELSE \/ /\ \E f \in files : f.up
               /\ pcB' = "done"
               /\ UNCHANGED <<tableExists, toRunB, iB>>
            \/ /\ tableExists' = TRUE
               /\ \E listing \in Perms({f \in files : f.up}) :
                     toRunB' = toRunOf(listing, table, TRUE)
               /\ IF toRunB' = <<>>
                  THEN pcB' = "done" /\ iB' = 0
                  ELSE pcB' = "begin" /\ iB' = 1
    /\ UNCHANGED <<files, table, schema, invocation, txScriptB, txBookB, doneB,
                   failedB>>

\* migrate of the second invocation: BEGIN
OtherBegin ==
    /\ pcB = "begin"
    /\ \E ok \in BOOLEAN : pcB' = IF ok THEN "script" ELSE "rollback"
    /\ UNCHANGED <<store, invocation, toRunB, iB, txScriptB, txBookB, doneB,
                   failedB>>

\* migrate of the second invocation: the script
OtherScript ==
    /\ pcB = "script"
    /\ \E ok \in BOOLEAN :
          /\ txScriptB' = ok
          /\ pcB' = IF ok THEN "book" ELSE "rollback"
    /\ UNCHANGED <<store, invocation, toRunB, iB, txBookB, doneB, failedB>>

\* migrate of the second invocation: the INSERT
OtherBook ==
    /\ pcB = "book"
    /\ ~(txBook /\ insertWaits(toRunB[iB], txBook, toRun[i]))
    /\ \E ok \in BOOLEAN :
          /\ ok => ~insertRejected(table, toRunB[iB])
          /\ txBookB' = ok
          /\ pcB' = IF ok THEN "commit" ELSE "rollback"
    /\ UNCHANGED <<store, invocation, toRunB, iB, txScriptB, doneB, failedB>>

\* migrate of the second invocation: COMMIT
OtherCommit ==
    /\ pcB = "commit"
    /\ \/ /\ schema' = schemaAfter(schema, toRunB[iB], txScriptB, "commit")
          /\ table' = tableAfter(table, toRunB[iB], txBookB, "commit")
          /\ txScriptB' = FALSE /\ txBookB' = FALSE
          /\ doneB' = doneB \cup {iB}
          /\ pcB' = afterCommit(iB, Len(toRunB)).pc
          /\ iB' = afterCommit(iB, Len(toRunB)).i
       \/ /\ pcB' = "rollback"
          /\ UNCHANGED <<schema, table, txScriptB, txBookB, doneB, iB>>
    /\ UNCHANGED <<dir, files, tableExists, invocation, toRunB, failedB>>

\* migrate of the second invocation: the catch block
OtherRollback ==
    /\ pcB = "rollback"
    /\ schema' = schemaAfter(schema, toRunB[iB], txScriptB, "rollback")
    /\ table' = tableAfter(table, toRunB[iB], txBookB, "rollback")
    /\ txScriptB' = FALSE /\ txBookB' = FALSE
    /\ failedB' = iB
    /\ pcB' = afterCatch(iB, Len(toRunB)).pc
    /\ iB' = afterCatch(iB, Len(toRunB)).i
    /\ UNCHANGED <<dir, files, tableExists, invocation, toRunB, doneB>>

cmdUp == Start("up")
cmdDown == Start("down")
cmdRevert == Start("revert")
cmdStatus == Start("status")

Next ==
    \/ cmdUp \/ cmdDown \/ cmdRevert \/ cmdStatus
    \/ FindLocal \/ Reconcile
    \/ Begin \/ Script \/ Book \/ Commit \/ Rollback
    \/ FetchHead \/ ReadHeadMigration
    \/ StatusFetch \/ StatusPrint
    \/ Exit

Spec == Init /\ [][Next]_vars

\* The commands with a logger whose calls can throw
NextSink == Next \/ LogApplyingFails \/ LogFailedFails

SpecSink == Init /\ [][NextSink]_vars

\* An up run followed by a down run on the same stores
InitRoundTrip == InitStore /\ InitRun /\ rt = "up" /\ orig = table

NextRoundTrip ==
    \/ cmdUp \/ cmdDown
    \/ FindLocal \/ Reconcile
    \/ Begin \/ Script \/ Book \/ Commit \/ Rollback
    \/ Exit

SpecRoundTrip == InitRoundTrip /\ [][NextRoundTrip]_vars

\* Two up invocations against the same database and directory; up lists the
\* forward files only (line 640), so the directory holds no others here
InitTwoUp ==
    /\ InitStore
    /\ InitRun
    /\ rt = "up"
    /\ orig = table
    /\ \A f \in files : f.up

NextTwoUp ==
    \/ cmdUp
    \/ FindLocal \/ Reconcile
    \/ Begin \/ Script \/ Book \/ Commit \/ Rollback
    \/ OtherReconcile
    \/ OtherBegin \/ OtherScript \/ OtherBook \/ OtherCommit \/ OtherRollback

SpecTwoUp == InitTwoUp /\ [][NextTwoUp]_vars

\* An up run followed by a second up run on the same stores
InitUpTwice == InitStore /\ InitRun /\ rt = "up1" /\ orig = table

NextUpTwice ==
    \/ cmdUp
    \/ FindLocal \/ Reconcile
    \/ Begin \/ Script \/ Book \/ Commit \/ Rollback
    \/ Exit

SpecUpTwice == InitUpTwice /\ [][NextUpTwice]_vars

----------------------------------------------------------------------------
\* Vocabulary of the properties

Executing == cmd \in {"up", "down", "revert"}

\* the work list has been computed
Reconciled ==
    /\ pc \in {"begin", "script", "book", "commit", "rollback", "done"}
    /\ err \notin {"load", "config"}

LocalForward == {f \in files : f.up}
LocalBackward == {f \in files : ~f.up}

\* the positions of the log that hold an event of one kind
At(kind) == {p \in 1..Len(log) : log[p][1] = kind}

\* the items committed so far in this run
Committed == {log[p][2] : p \in At("commit")}

NoDuplicates(s) == \A p, q \in 1..Len(s) : s[p] = s[q] => p = q

Ascending(s) == \A p, q \in 1..Len(s) : p < q => s[p].id <= s[q].id
Descending(s) == \A p, q \in 1..Len(s) : p < q => s[p].id >= s[q].id

\* every script file has its counterpart of the other direction
PairsComplete == \A f \in files : [f EXCEPT !.up = ~f.up] \in files

----------------------------------------------------------------------------
\* C1: in every state of an up, down or revert run, failures included, the
\* table holds a row (id, name) exactly when the forward script of (id, name)
\* is committed and no backward script of it has been committed since.
RecordIffCommitted ==
    \A k \in MigrationRecord : k \in table <=> k \in schema

\* a run in which a script ran and its transaction was rolled back after an
\* earlier item had committed
RecordIffCommittedWitness ==
    /\ Executing
    /\ pc = "done"
    /\ failedAt = 2
    /\ table # table0
    /\ At("rollback") # {}

\* C2: when the Nth item fails, exactly the first N-1 items have changed the
\* table and stay committed, the Nth is rolled back, the items behind it are
\* never attempted and no item is attempted twice.
FailFast ==
    (Executing /\ pc = "done" /\ failedAt > 0) =>
        LET N == failedAt
            first == {Row(toRun[k]) : k \in 1..(N - 1)}
        IN  /\ [p \in 1..Cardinality(At("attempt")) |->
                   log[CHOOSE q \in At("attempt") :
                       Cardinality({r \in At("attempt") : r <= q}) = p][2]]
                 = [p \in 1..N |-> p]
            /\ Committed = 1..(N - 1)
            /\ log[Len(log)] = <<"rollback", N>>
            /\ ~txOpen /\ ~txScript /\ ~txBook
            /\ Cardinality(first) = N - 1
            /\ IF cmd = "up"
               THEN /\ table = table0 \cup first
                    /\ first \cap table0 = {}
               ELSE /\ table = table0 \ first
                    /\ first \subseteq table0

\* the second of at least three items failed
FailFastWitness ==
    /\ Executing
    /\ pc = "done"
    /\ failedAt = 2
    /\ Len(toRun) >= 3

\* C3: the work list of up is exactly the local forward migrations whose
\* (id, name) is not an applied record, in ascending order of id.
ForwardWorkList ==
    (cmd = "up" /\ Reconciled) =>
        /\ Range(toRun) = {m \in LocalForward : Row(m) \notin table0}
        /\ NoDuplicates(toRun)
        /\ Ascending(toRun)

\* a work list of two, with a local migration left out because it is applied
\* and one kept whose id is recorded under another name
ForwardWorkListWitness ==
    /\ cmd = "up"
    /\ pc = "begin"
    /\ Len(toRun) >= 2
    /\ toRun[1].id < toRun[2].id
    /\ \E m \in LocalForward : Row(m) \in table0
    /\ \E m \in Range(toRun) : \E r \in table0 : r.id = m.id

\* C4: the work list of down is exactly the local backward migrations whose
\* (id, name) is an applied record, in descending order of id.
BackwardWorkList ==
    (cmd = "down" /\ Reconciled) =>
        /\ Range(toRun) = {m \in LocalBackward : Row(m) \in table0}
        /\ NoDuplicates(toRun)
        /\ Descending(toRun)

\* a work list of two, with a local backward migration left out because it
\* is not applied
BackwardWorkListWitness ==
    /\ cmd = "down"
    /\ pc = "begin"
    /\ Len(toRun) >= 2
    /\ toRun[1].id > toRun[2].id
    /\ \E m \in LocalBackward : Row(m) \notin table0

\* an up run and then a down run have both ended without any failure, on a
\* directory of complete pairs
RoundTripDone ==
    /\ rt = "down"
    /\ cmd = "down"
    /\ pc = "done"
    /\ exit = "ok"
    /\ failedAt = 0
    /\ PairsComplete

\* C5 as stated: up and then down, without failure, leave the table with
\* exactly the rows it held before the up.
RoundTripRestores == RoundTripDone => table = orig

\* C5: up and then down, without failure, leave the table with the rows it
\* held before the up except those of the local migrations, which are removed.
RoundTripRemovesLocal ==
    RoundTripDone => table = orig \ {Row(f) : f \in files}

\* the up run applied something, the down run reverted two migrations, one of
\* which was applied before the up
RoundTripWitness ==
    /\ RoundTripDone
    /\ Cardinality(Committed) = 2
    /\ orig # {}
    /\ table # orig
    /\ \E f \in files : Row(f) \notin orig

\* the events of the log up to position p that end a transaction
Ended(p) == {q \in At("commit") \cup At("rollback") : q <= p}

\* C6: up commits its rows one at a time in strictly ascending order of id
\* and down removes them in strictly descending order; the transaction of an
\* item begins only after the one of the item before it has committed, and
\* at most one transaction is in progress.
StrictlySequential ==
    cmd \in {"up", "down"} =>
        /\ \A p \in At("attempt") :
              /\ log[p][2] > 1 =>
                    \E q \in At("commit") : q < p /\ log[q][2] = log[p][2] - 1
              /\ Cardinality({q \in At("attempt") : q <= p})
                    - Cardinality(Ended(p)) = 1
        /\ \A p, q \in At("commit") :
              p < q => IF cmd = "up"
                       THEN toRun[log[p][2]].id < toRun[log[q][2]].id
                       ELSE toRun[log[p][2]].id > toRun[log[q][2]].id
        /\ Cardinality(table) =
              IF cmd = "up"
              THEN Cardinality(table0) + Cardinality(At("commit"))
              ELSE Cardinality(table0) - Cardinality(At("commit"))

\* an up run that committed two items and is inside the transaction of a
\* third
StrictlySequentialWitness ==
    /\ cmd = "up"
    /\ Cardinality(At("commit")) = 2
    /\ txOpen
    /\ i = 3

\* C7: revert on a non-empty table has the one-item work list of the backward
\* migration of the record with the greatest id, and a successful run leaves
\* the table without that record and otherwise unchanged.
RevertTargetsHead ==
    (/\ cmd = "revert"
     /\ table0 # {}
     /\ Reconciled
     /\ ~(pc = "done" /\ exit = "error" /\ failedAt = 0)) =>
        \E h \in table0 :
            /\ \A r \in table0 : r.id <= h.id
            /\ toRun = <<[id |-> h.id, name |-> h.name, up |-> FALSE]>>
            /\ (pc = "done" /\ exit = "ok" /\ failedAt = 0) =>
                  /\ table = table0 \ {h}
                  /\ Cardinality(table) = Cardinality(table0) - 1

\* a successful revert on a table of two records
RevertTargetsHeadWitness ==
    /\ cmd = "revert"
    /\ pc = "done"
    /\ exit = "ok"
    /\ failedAt = 0
    /\ Cardinality(table0) = 2
    /\ Committed = {1}

\* revert has ended on a table that held no row when it started
RevertOnEmpty == cmd = "revert" /\ pc = "done" /\ table0 = {} /\ dbname

\* C8 as stated: revert on an empty table has an empty work list, changes
\* nothing at all in the database and ends successfully.
RevertEmptyNoMutation ==
    RevertOnEmpty =>
        /\ toRun = <<>>
        /\ log = <<>>
        /\ exit = "ok"
        /\ table = {} /\ schema = {}
        /\ tableExists = existed0[2]

\* C8: revert on an empty table has an empty work list, opens no transaction,
\* changes no row and no schema object and ends successfully; the one thing
\* it can change is to create the table "migration" when it is absent.
RevertEmptyNoOp ==
    RevertOnEmpty =>
        /\ toRun = <<>>
        /\ log = <<>>
        /\ exit = "ok"
        /\ table = {} /\ schema = {}
        /\ tableExists

\* revert ended on a database that had no table "migration"
RevertEmptyWitness ==
    /\ RevertOnEmpty
    /\ ~existed0[2]
    /\ tableExists
    /\ exit = "ok"

\* C9: status writes one line per id seen in the table or among the local
\* forward migrations; applied is true exactly when a record has the id, and
\* the name is the record's when there is one and a local migration's
\* otherwise.
StatusLines ==
    (cmd = "status" /\ pc = "done" /\ exit = "ok") =>
        LET ids == {r.id : r \in table} \cup {f.id : f \in LocalForward}
        IN  /\ {out[k].id : k \in 1..Len(out)} = ids
            /\ Len(out) = Cardinality(ids)
            /\ \A k \in 1..Len(out) :
                  LET recorded == {r \in table : r.id = out[k].id}
                  IN  /\ out[k].applied <=> recorded # {}
                      /\ IF recorded # {}
                         THEN \E r \in recorded : out[k].name = r.name
                         ELSE \E f \in LocalForward :
                                 f.id = out[k].id /\ f.name = out[k].name

\* two lines: one of a record whose id is local under another name only, one
\* of a local migration that is not applied
StatusLinesWitness ==
    /\ cmd = "status"
    /\ pc = "done"
    /\ exit = "ok"
    /\ Len(out) = 2
    /\ \E r \in table : \E f \in LocalForward :
          /\ f.id = r.id /\ f.name # r.name
          /\ \A g \in LocalForward : g.id = r.id => g.name # r.name
    /\ \E k \in 1..Len(out) : ~out[k].applied

\* status has fetched the records, or has ended
StatusRan == cmd = "status" /\ pc \in {"load", "done"}

\* C10 as stated: after status the records and the local migrations are as
\* before and nothing has been created in the database or the directory.
StatusCreatesNothing ==
    StatusRan =>
        /\ table = table0 /\ schema = table0
        /\ files = existed0[3]
        /\ dir = existed0[1]
        /\ tableExists = existed0[2]

\* C10: after status the records and the local migration files are as
\* before; all it can create is the empty table "migration" and the empty
\* directory "migrations", each when absent.
StatusReadOnly ==
    StatusRan =>
        /\ table = table0 /\ schema = table0
        /\ files = existed0[3]
        /\ dir = existed0[1] \/ (existed0[1] = "absent" /\ dir = "dir")
        /\ tableExists = existed0[2] \/ (~existed0[2] /\ table = {})

\* status ended where neither the directory nor the table existed
StatusReadOnlyWitness ==
    /\ cmd = "status"
    /\ pc = "done"
    /\ exit = "ok"
    /\ existed0[1] = "absent"
    /\ ~existed0[2]
    /\ dir = "dir"
    /\ tableExists

\* the command has ended on a failure of the load of the local migrations
LoadFailed == pc = "done" /\ err = "load"

\* C11 as stated: whichever the command, a failure of the load of the local
\* migrations ends it before any interaction with the database.
LoadFailureBeforeDatabase ==
    (cmd \in {"up", "down", "revert", "status"} /\ LoadFailed) => ~conn

\* C11: for up and down a failure of the load of the local migrations ends
\* the command before any interaction with the database; revert and status
\* have queried the database by the time they load.
LoadFailureBeforeDatabaseUpDown ==
    /\ (cmd \in {"up", "down"} /\ LoadFailed) =>
          /\ ~conn
          /\ tableExists = existed0[2]
          /\ table = table0
    /\ (cmd \in {"revert", "status"} /\ LoadFailed) => conn

\* an up that found the table absent and forward scripts it could not read
LoadFailureWitness ==
    /\ cmd = "up"
    /\ LoadFailed
    /\ dbname
    /\ LocalForward # {}
    /\ ~existed0[2]

\* C12: without the database name option each command ends with a non-zero
\* outcome, never connects and leaves the table as it was.
MissingDatabaseName ==
    (cmd # "idle" /\ ~dbname) =>
        /\ ~conn
        /\ pc = "done" => exit = "error"
        /\ table = table0 /\ schema = table0
        /\ tableExists = existed0[2]
        /\ pc \in {"load", "fetch", "head", "done"}

\* an up with scripts to run that ended on the missing option
MissingDatabaseNameWitness ==
    /\ cmd = "up"
    /\ pc = "done"
    /\ ~dbname
    /\ err = "config"
    /\ \E f \in LocalForward : Row(f) \notin table

\* C13: a failure of the logger before or after a migration attempt leaves
\* the control flow as it is without the failure: the item the logger failed
\* at is attempted all the same.
SinkFailureHarmless ==
    (Executing /\ pc = "done" /\ err = "sink") =>
        /\ \E p \in At("attempt") : log[p][2] = failedAt
        /\ exit = "ok"

\* the backward script file of a record
BackwardOf(r) == [id |-> r.id, name |-> r.name, up |-> FALSE]

\* the command needs the backward script of an applied migration and the
\* directory does not hold it
BackwardMissing ==
    \/ cmd = "down" /\ \E r \in table0 : BackwardOf(r) \notin files
    \/ /\ cmd = "revert"
       /\ \E h \in table0 :
             /\ \A r \in table0 : r.id <= h.id
             /\ BackwardOf(h) \notin files

\* C14: down with an applied record that has no backward script, and revert
\* whose head record has none, fail at the load and remove no record.
MissingBackwardFails ==
    (pc = "done" /\ dbname /\ dir = "dir" /\ BackwardMissing) =>
        /\ exit = "error"
        /\ table = table0

\* C15: a work item that commits changes exactly the record of its own id
\* and name: a forward item adds it, a backward item removes it, and every
\* other record stays.
CommitChangesOwnRecord ==
    [][(pc = "commit" /\ pc' # "rollback") =>
          LET m == toRun[i]
          IN  IF m.up
              THEN Row(m) \notin table /\ table' = table \cup {Row(m)}
              ELSE Row(m) \in table /\ table' = table \ {Row(m)}]_vars

\* a backward item has committed and left a record of the same name behind
CommitChangesOwnRecordWitness ==
    /\ cmd = "down"
    /\ Committed = {1}
    /\ \E r \in table : r.name = toRun[1].name

\* C16: after an up that ended without failure every local forward
\* migration is recorded, and the up that follows has an empty work list,
\* opens no transaction and leaves the table as it is.
UpIdempotent ==
    /\ rt = "up2" => \A f \in LocalForward : Row(f) \in table
    /\ (rt = "up2" /\ cmd = "up" /\ Reconciled) =>
          /\ pc = "done"
          /\ toRun = <<>>
          /\ log = <<>>
          /\ ~txOpen
          /\ table = table0
          /\ exit = "ok"

\* the second up has ended after a first up that applied two migrations
UpIdempotentWitness ==
    /\ rt = "up2"
    /\ cmd = "up"
    /\ pc = "done"
    /\ exit = "ok"
    /\ Cardinality(table \ orig) = 2

\* status has written its lines
StatusDone == cmd = "status" /\ pc = "done" /\ exit = "ok"

\* status reports the id of m as applied
ReportedApplied(m) == \E k \in 1..Len(out) : out[k].id = m.id /\ out[k].applied

\* m is in the work list up computes from the same listing and records
InForwardWorkList(m) == m \in Range(toRunOf(local, table, TRUE))

\* C17 as stated: status reports a local forward migration as applied
\* exactly when it is not in the work list of up.
StatusAgreesWithUp ==
    StatusDone =>
        \A m \in LocalForward : ReportedApplied(m) <=> ~InForwardWorkList(m)

\* C17: status reports a local forward migration as applied exactly when it
\* is not in the work list of up, for every local forward migration whose id
\* is not recorded under another name.
StatusAgreesWithUpSameName ==
    StatusDone =>
        \A m \in LocalForward :
            (\A r \in table : r.id = m.id => r.name = m.name) =>
                (ReportedApplied(m) <=> ~InForwardWorkList(m))

\* status over one applied local migration and one that up would run
StatusAgreesWitness ==
    /\ StatusDone
    /\ \E m \in LocalForward : Row(m) \in table /\ ReportedApplied(m)
    /\ \E m \in LocalForward : InForwardWorkList(m) /\ ~ReportedApplied(m)

\* the forward item of the loop is not committed and its id is recorded
IdTaken ==
    /\ cmd = "up"
    /\ i \in 1..Len(toRun)
    /\ i \notin Committed
    /\ \E r \in table : r.id = toRun[i].id

\* C18: the table never holds two records of one id; a forward item whose id
\* is recorded fails at the INSERT, never commits, its script's effect is
\* rolled back and the run stops at it.
OneRecordPerId ==
    /\ \A r1, r2 \in table : r1.id = r2.id => r1.name = r2.name
    /\ IdTaken =>
          /\ pc # "commit"
          /\ ~txBook
          /\ pc = "done" =>
                /\ failedAt = i
                /\ Committed = 1..(i - 1)
                /\ schema = table
                /\ ~txOpen /\ ~txScript

\* an up stopped at its second item, whose id is recorded under another name
OneRecordPerIdWitness ==
    /\ IdTaken
    /\ pc = "done"
    /\ failedAt = 2
    /\ i < Len(toRun)
    /\ \E r \in table : r.id = toRun[2].id /\ r.name # toRun[2].name

\* the records each of the two invocations has committed
CommittedRows == {Row(toRun[k]) : k \in Committed}
CommittedRowsB == {Row(toRunB[k]) : k \in doneB}

\* C19: of two interleaved up invocations at most one commits the script and
\* the record of a migration, the other's transaction for it is rolled back,
\* and the table still holds a record exactly for the committed scripts.
NoDoubleCommit ==
    /\ \A a \in CommittedRows : \A b \in CommittedRowsB : a.id # b.id
    /\ (CommittedRows \cup CommittedRowsB) \cap orig = {}
    /\ table = orig \cup CommittedRows \cup CommittedRowsB
    /\ Cardinality(table) =
          Cardinality(orig) + Cardinality(Committed) + Cardinality(doneB)
    /\ table = schema
    /\ (pc = "commit" /\ txBook) => Row(toRun[i]) \notin table
    /\ (pcB = "commit" /\ txBookB) => Row(toRunB[iB]) \notin table
    /\ (pcB = "done" /\ iB \in 1..Len(toRunB) /\ iB \notin doneB
            /\ Row(toRunB[iB]) \in CommittedRows) =>
          failedB = iB /\ ~txScriptB /\ ~txBookB

\* both invocations had the same migration first in their work lists: the
\* first committed it and went on, the second ran its script and was rolled
\* back
NoDoubleCommitWitness ==
    /\ 1 \in Committed
    /\ Len(toRunB) >= 1
    /\ toRunB[1] = toRun[1]
    /\ pcB = "done"
    /\ failedB = 1
    /\ Cardinality(Committed) = 2

====
